---- MODULE Spec2Model ----
(***************************************************************************)
(* The ledger engine of reimagined-eureka (src/eureka.py): the BlockChain  *)
(* class over its three MongoDB collections (blocks, transactions,         *)
(* branch).  Collections are modelled as what the queries of the code see: *)
(* `blocks' and `transactions' are sequences in insertion (natural) order, *)
(* `branch' is a set of rows keyed by _id.                                 *)
(*                                                                         *)
(* Reading conventions (the places where the Python text would stop with a *)
(* type error before touching the store are read as the field access the  *)
(* surrounding code evidently relies on):                                  *)
(*   - get_current_branch returns the `branch' field of the row it finds;  *)
(*   - rows are read through the keys they were written with (the header   *)
(*     of a block is stored under 'hash', its parent under                 *)
(*     'previous_hash');                                                   *)
(*   - update_one / update_many set the listed fields of matching rows     *)
(*     and do nothing when no row matches (no upsert is requested);        *)
(*   - an _id generated by insert_one is a fresh value, greater than 0 and *)
(*     greater than every earlier one (ObjectId order).                    *)
(* Hash values are opaque: headers, block hashes and transaction hashes    *)
(* are drawn from three disjoint integer ranges (no collisions).           *)
(***************************************************************************)
EXTENDS Integers, Sequences, FiniteSets, TLC

VARIABLES blocks, transactions, branch, next_id, last, odd, calls

vars == <<blocks, transactions, branch, next_id, last, odd, calls>>

(* ------------------------------ bounds --------------------------------- *)
MaxBlocks == 7          \* rows in the block collection
MaxOddBlocks == 4       \* the same, once an irregular block was submitted
MaxOdd == 1             \* submissions that are not a new child of a stored block
MaxHeight == 5          \* greatest height an irregular block may claim
MaxBranchId == 2        \* ids get_new_branch_id may hand out
MaxTxPerBlock == 2      \* transactions carried by one block
MaxAddress == 2         \* addresses are 0 (the genesis address) .. MaxAddress
NumProcs == 2           \* processes that call the ledger at the same time
MaxPruneBlocks == 8      \* rows stored or being added while prune runs step by step
MaxStepBlocks == 4      \* rows in the block collection when calls run step by step
MaxHalvings == 35       \* halving periods the heights given to calculate_reward span
MaxTxs == 3             \* transactions handed to one Block construction
MaxStamp == 2           \* timestamps and nonces handed to one Block construction
MaxTimedBlocks == 3     \* rows in the block collection when the difficulty is asked
MaxSignLen == 5         \* pieces of the signature text handed to verify_transaction

(* --------------------------- program constants ------------------------- *)
SHORT_CHAIN_TOLERANCE == 3
INITIAL_COINS == 100
HALVING_FREQUENCY == 180000
SIGNIFICANT_DIGITS == 8
HASH_DIFFICULTY_MIN == 2
TARGET_TIME == 600
DIFFICULTY_ADJUSTMENT_SPAN == 500
BYTE_SIZE == 256

(* ------------------------------ hash spaces ---------------------------- *)
HeaderSpace == 100
BlockHashBase == 1000
TxHashBase == 100000
UnknownHash == HeaderSpace - 1       \* a header no admitted block has

SetMin(S) == CHOOSE x \in S : \A y \in S : x <= y
SetMax(S) == CHOOSE x \in S : \A y \in S : x >= y

\* Transaction._get_hash: one digest per transaction, here the i-th
\* transaction batched into the block that ends up with header h
TxHash(h, i) == TxHashBase + h * 10 + i

\* Block._get_hash: digest of {height, transactions, header}
BlockHash(height, header) == BlockHashBase + header * HeaderSpace + height

\* Block.__init__: the object handed to add_block
StampedBlock(height, txs, prev_hash, header, timestamp) ==
    [height |-> height, prev_hash |-> prev_hash, transactions |-> txs,
     header |-> header, hash |-> BlockHash(height, header), timestamp |-> timestamp]

\* a block of a caller whose timestamp nothing reads: all are stamped 1
Block(height, txs, prev_hash, header) == StampedBlock(height, txs, prev_hash, header, 1)

\* Transaction.__init__ (fee, timestamp and signature are not modelled; the
\* digest stands for all fields)
Transaction(index, to, amount, by, hash) ==
    [index |-> index, sender |-> by, receiver |-> to, quantity |-> amount,
     hash |-> hash]

Addresses == 0..MaxAddress

\* the transactions a caller batches into the block that gets this header:
\* senders, receivers and amounts vary with the header and the position
TxList(header) ==
    [i \in 1..(1 + (header % MaxTxPerBlock)) |->
        Transaction(i - 1, (header + i) % (MaxAddress + 1), 1 + ((header + i) % 3),
                    header % (MaxAddress + 1), TxHash(header, i))]

\* BlockChain.create_genesis_block: height 0, header 0, one transaction whose
\* hash is also used as the previous hash
create_genesis_block ==
    StampedBlock(0, <<Transaction(0, 0, 0, 0, TxHash(0, 1))>>, TxHash(0, 1), 0, 0)

(* ------------------------------ queries -------------------------------- *)
Rows == DOMAIN blocks

get_current_branch_minus_one(hash_key) ==
    LET result == {i \in Rows : blocks[i].hash = hash_key}
    IN  IF result = {} THEN 0 - 1 ELSE blocks[SetMin(result)].branch

\* BlockChain.get_current_branch
get_current_branch(hash_key) ==
    LET result == {i \in Rows : blocks[i].hash = hash_key}
    IN  IF result = {} THEN 0 ELSE blocks[SetMin(result)].branch

\* BlockChain.get_height: greatest height over all stored blocks
get_height == SetMax({blocks[i].height : i \in Rows})

\* BlockChain.get_clashing_branches
get_clashing_branches(prev_hash) ==
    {blocks[i].branch : i \in {j \in Rows : blocks[j].previous_hash = prev_hash}}

\* BlockChain.hash_to_header: first row with that header, 0 for None
hash_to_header(hash_value) ==
    LET return_val == {i \in Rows : blocks[i].hash = hash_value}
    IN  IF return_val = {} THEN 0 ELSE SetMin(return_val)

\* rows that find().sort('branch', -1).limit(1) may return: the order of
\* rows with equal sort key is not defined by the store
TopBranchRows == {i \in Rows : \A j \in Rows : blocks[j].branch <= blocks[i].branch}

\* BlockChain.get_tallest_block(b), with m the row the sorted query returned;
\* 0 for None
get_tallest_block(b, m) ==
    LET max_height == blocks[m].height
        final_block == {i \in Rows : blocks[i].branch = b /\ blocks[i].height = max_height}
    IN  IF final_block = {} THEN 0 ELSE SetMin(final_block)

\* BlockChain.yield_range_of_headers
yield_range_of_headers(start, stop, b) ==
    {blocks[i].hash : i \in {j \in Rows : /\ blocks[j].height >= start
                                          /\ blocks[j].height <= stop
                                          /\ blocks[j].branch = b}}

(* --------------------------- reorganization ---------------------------- *)
\* the while loop of change_primary_branch, from row `cur'; `seen' are the
\* rows already visited (a revisit means the loop never ends)
RECURSIVE Walk(_, _, _)
Walk(cur, alt_hashes, seen) ==
    LET p == hash_to_header(blocks[cur].previous_hash)
    IN  IF p = 0 THEN [outcome |-> "error"]
        ELSE IF blocks[p].branch > 0
             THEN IF p \in seen THEN [outcome |-> "diverges"]
                  ELSE Walk(p, alt_hashes \cup {blocks[p].hash}, seen \cup {p})
             ELSE [outcome |-> "done", alt_hashes |-> alt_hashes,
                   start |-> blocks[p].height]

RelabelReplacing(rows, key, hashes, b) ==
    [i \in DOMAIN rows |-> IF rows[i][key] \in hashes
                           THEN [f \in DOMAIN rows[i] |-> IF f = "branch" THEN b ELSE 0]
                           ELSE rows[i]]

\* update_many(filter on `key', {'branch': b})
Relabel(rows, key, hashes, b) ==
    [i \in DOMAIN rows |-> IF rows[i][key] \in hashes
                           THEN [rows[i] EXCEPT !.branch = b] ELSE rows[i]]

\* BlockChain.change_primary_branch(b), with m as in get_tallest_block
change_primary_branch(b, m) ==
    LET tip == get_tallest_block(b, m)
    IN  IF tip = 0 THEN [outcome |-> "error"]
        ELSE LET w == Walk(tip, {}, {tip})
             IN  IF w.outcome # "done" THEN [outcome |-> w.outcome]
                 ELSE LET stop == blocks[tip].height
                          primary_branch == yield_range_of_headers(w.start, stop, 0)
                      IN  [outcome |-> "done",
                           blocks |-> Relabel(Relabel(blocks, "hash", w.alt_hashes, 0),
                                              "hash", primary_branch, b),
                           transactions |->
                               Relabel(Relabel(transactions, "block_hash", w.alt_hashes, 0),
                                       "block_hash", primary_branch, b)]

(* ------------------------------ add_block ------------------------------ *)
BlockRow(block, b) ==
    [hash |-> block.header, previous_hash |-> block.prev_hash,
     height |-> block.height, timestamp |-> block.timestamp, branch |-> b]

TxRows(block, b) ==
    [i \in DOMAIN block.transactions |->
        [hash |-> block.transactions[i].hash,
         by |-> block.transactions[i].sender,
         amount |-> block.transactions[i].quantity,
         to |-> block.transactions[i].receiver,
         block_hash |-> block.hash, branch |-> b]]

\* lines 285-318: the three writes
Persist(block, current_branch, blks, txs, brs, promoted) ==
    /\ blocks' = Append(blks, BlockRow(block, current_branch))
    /\ transactions' = txs \o TxRows(block, current_branch)
    /\ branch' = {IF r.id = current_branch
                  THEN [r EXCEPT !.current_height = block.height,
                                 !.current_hash = block.header]
                  ELSE r : r \in brs}
    /\ last' = [op |-> "add", header |-> block.header, prev_hash |-> block.prev_hash,
                height |-> block.height, branch |-> current_branch,
                promoted |-> promoted]

Abort(block, b) ==
    /\ UNCHANGED <<blocks, transactions, branch, next_id>>
    /\ last' = [op |-> "abort", header |-> block.header, prev_hash |-> block.prev_hash,
                height |-> block.height, branch |-> b, promoted |-> 0]

\* BlockChain.get_new_branch_id: the new row of the branch collection
NewBranchRow(block_hash, height) ==
    [id |-> next_id, current_height |-> height, current_hash |-> block_hash]

TallerOrEqual(height, current_height) == height >= current_height

\* the comparison of line 274
Taller(height, current_height) == height > current_height

ClashesInverted(current_branch, clashing_branches) ==
    clashing_branches # {} /\ current_branch \notin clashing_branches

\* the test of line 282
Clashes(current_branch, clashing_branches) ==
    clashing_branches # {} /\ current_branch \in clashing_branches

PromotedBranchKept(current_branch) == current_branch

\* line 278: the branch the block is stored on once its branch was promoted
PromotedBranch(current_branch) == 0

\* BlockChain.add_block
add_block(block) ==
    LET current_branch == get_current_branch(block.prev_hash)
        current_height == get_height
    IN  IF Taller(block.height, current_height)
        THEN IF current_branch > 0
             THEN \E m \in TopBranchRows :
                     LET r == change_primary_branch(current_branch, m)
                     IN  IF r.outcome = "done"
                         THEN /\ Persist(block, PromotedBranch(current_branch), r.blocks,
                                         r.transactions, branch, current_branch)
                              /\ UNCHANGED next_id
                         ELSE Abort(block, current_branch)
             ELSE /\ Persist(block, current_branch, blocks, transactions, branch, 0)
                  /\ UNCHANGED next_id
        ELSE IF Clashes(current_branch, get_clashing_branches(block.prev_hash))
             THEN /\ next_id <= MaxBranchId
                  /\ Persist(block, next_id, blocks, transactions,
                             branch \cup {NewBranchRow(block.header, block.height)}, 0)
                  /\ next_id' = next_id + 1
             ELSE /\ Persist(block, current_branch, blocks, transactions, branch, 0)
                  /\ UNCHANGED next_id

(* -------------------------------- prune -------------------------------- *)
TooShortByOneMore(current_height, max_height) ==
    current_height < max_height - SHORT_CHAIN_TOLERANCE - 1

\* the filter with the bound one block nearer to the tallest height
TooShortByOneLess(current_height, max_height) ==
    current_height < max_height - SHORT_CHAIN_TOLERANCE + 1

\* the filter of lines 469-470
TooShort(current_height, max_height) ==
    current_height < max_height - SHORT_CHAIN_TOLERANCE

delete_one(rows, target_branches) ==
    LET hit == {i \in DOMAIN rows : rows[i].branch \in target_branches}
    IN  IF hit = {} THEN rows
        ELSE SubSeq(rows, 1, SetMin(hit) - 1) \o SubSeq(rows, SetMin(hit) + 1, Len(rows))

\* delete_many({'branch': {'$in': target_branches}})
delete_many(rows, target_branches) ==
    SelectSeq(rows, LAMBDA x : x.branch \notin target_branches)

\* prune with the branches to delete read off the block rows' own heights
prune_by_block_rows ==
    LET max_height == get_height
        target_branches == {blocks[i].branch : i \in {j \in Rows :
                               TooShort(blocks[j].height, max_height)}}
    IN  /\ blocks' = delete_many(blocks, target_branches)
        /\ transactions' = delete_many(transactions, target_branches)
        /\ branch' = {r \in branch : r.id \notin target_branches}
        /\ UNCHANGED <<next_id, odd, calls>>
        /\ last' = [op |-> "prune", header |-> 0, prev_hash |-> 0, height |-> 0,
                    branch |-> 0, promoted |-> 0]

\* BlockChain.prune
prune ==
    LET max_height == get_height
        target_branches == {r.id : r \in {x \in branch :
                               TooShort(x.current_height, max_height)}}
    IN  /\ blocks' = delete_many(blocks, target_branches)
        /\ transactions' = delete_many(transactions, target_branches)
        /\ branch' = {r \in branch : r.id \notin target_branches}
        /\ UNCHANGED <<next_id, odd, calls>>
        /\ last' = [op |-> "prune", header |-> 0, prev_hash |-> 0, height |-> 0,
                    branch |-> 0, promoted |-> 0]

(* ------------------------------- queries ------------------------------- *)
\* the loops of lines 584-587: amounts of the rows of a cursor, added up
RECURSIVE SumAmounts(_)
SumAmounts(entries) ==
    IF entries = <<>> THEN 0 ELSE Head(entries).amount + SumAmounts(Tail(entries))

get_balance_any_branch(address, b) ==
    LET plus == SelectSeq(transactions, LAMBDA x : x.to = address /\ x.branch = b)
        minus == SelectSeq(transactions, LAMBDA x : x.by = address)
    IN  0 + SumAmounts(plus) - SumAmounts(minus)

\* BlockChain.get_balance
get_balance(address, b) ==
    LET plus == SelectSeq(transactions, LAMBDA x : x.to = address /\ x.branch = b)
        minus == SelectSeq(transactions, LAMBDA x : x.by = address /\ x.branch = b)
    IN  0 + SumAmounts(plus) - SumAmounts(minus)

\* get_balance(address) with the default of its branch parameter
get_balance_default(address) == get_balance(address, 0)

(* --------------------------- block construction ------------------------ *)
\* A string is a sequence of tokens: [chr |-> c] is the character c.  A
\* digest is the join of hex(word) over its words (security.py lines 332-338), so
\* it starts with the characters "0" and "x"; the token [sha |-> text]
\* stands for the characters after them in the digest sha_512 makes of
\* text, and [digest |-> n] for those of a digest made elsewhere (a
\* transaction hash, a parent hash).  Different texts give different
\* digests; digests made elsewhere are ordered as their numbers.
Digest(n) == <<[chr |-> "0"], [chr |-> "x"], [digest |-> n]>>

\* security.sha_512: the empty text is returned as it is
sha_512(text_to_hash) ==
    IF text_to_hash = <<>> THEN <<>>
    ELSE <<[chr |-> "0"], [chr |-> "x"], [sha |-> text_to_hash]>>

HexChars == <<"0", "1", "2", "3", "4", "5", "6", "7", "8", "9",
              "a", "b", "c", "d", "e", "f">>

RECURSIVE HexDigits(_)
HexDigits(n) ==
    IF n < 16 THEN <<[chr |-> HexChars[n + 1]]>>
    ELSE HexDigits(n \div 16) \o <<[chr |-> HexChars[(n % 16) + 1]]>>

\* "{0:0>8x}".format(n): hexadecimal, filled with "0" on the left up to 8
\* characters
Hex8(n) ==
    LET digits == HexDigits(n)
    IN  [i \in 1..(IF Len(digits) < 8 THEN 8 - Len(digits) ELSE 0) |-> [chr |-> "0"]]
        \o digits

\* sorted(..., key=lambda x: x.hash): the first of the smallest comes first
RECURSIVE sorted(_)
sorted(txs) ==
    IF txs = <<>> THEN <<>>
    ELSE LET i == SetMin({j \in DOMAIN txs :
                            \A k \in DOMAIN txs : txs[j].hash <= txs[k].hash})
         IN  <<txs[i]>> \o sorted(SubSeq(txs, 1, i - 1) \o SubSeq(txs, i + 1, Len(txs)))

Block_transactions_as_given(stored) ==
    IF stored = <<>> THEN [raises |-> "IndexError", value |-> <<>>]
    ELSE [raises |-> "none", value |-> stored]

\* the transactions property, read as returning the list it builds from the
\* stored list: lines 176-177 change nothing, line 178 takes element 0
Block_transactions(stored) ==
    IF stored = <<>> THEN [raises |-> "IndexError", value |-> <<>>]
    ELSE [raises |-> "none",
          value |-> <<stored[1]>> \o sorted(SubSeq(stored, 2, Len(stored)))]

NextLevelDoublingLast(base) ==
    [j \in 1..((Len(base) + 1) \div 2) |->
        IF 2 * j - 1 = Len(base) THEN sha_512(base[2 * j - 1] \o base[2 * j - 1])
        ELSE sha_512(base[2 * j - 1] \o base[2 * j])]

\* one run of the for loop of lines 143-151: temp_base
NextLevel(base) ==
    [j \in 1..((Len(base) + 1) \div 2) |->
        IF 2 * j - 1 = Len(base) THEN sha_512(base[2 * j - 1])
        ELSE sha_512(base[2 * j - 1] \o base[2 * j])]

\* the while loop of lines 140-157
RECURSIVE MerkleLoop(_)
MerkleLoop(base) == IF Len(base) > 1 THEN MerkleLoop(NextLevel(base)) ELSE base[1]

find_merkle_root(height, stored) ==
    LET txs == Block_transactions(stored)
    IN  IF txs.raises # "none" THEN [raises |-> txs.raises, index |-> 0, value |-> <<>>]
        ELSE IF Len(txs.value) < 1
        THEN [raises |-> "InvalidTransaction", index |-> height, value |-> <<>>]
        ELSE [raises |-> "none", index |-> 0,
              value |-> MerkleLoop([i \in DOMAIN txs.value |-> Digest(txs.value[i].hash)])]

get_header(prev_hash, merkle_root, timestamp, nonce) ==
    LET data == prev_hash \o merkle_root \o Hex8(timestamp) \o Hex8(nonce)
    IN  sha_512(data \o data)

\* json.dumps of height, transactions and header, as one text
get_hash(height, txs, header) ==
    sha_512(<<[json |-> [height |-> height,
                         transactions |-> [i \in DOMAIN txs |-> txs[i].hash],
                         header |-> header]]>>)

\* `letter != 0`: a character of a str and the int 0 are of different
\* types, and Python finds values of different types unequal
differs_from_int(letter, n) == TRUE

\* the for loop of lines 201-204, from letter i on
RECURSIVE DifficultyLoop(_, _, _)
DifficultyLoop(hash, i, difficulty) ==
    IF i > Len(hash) \/ differs_from_int(hash[i], 0) THEN difficulty
    ELSE DifficultyLoop(hash, i + 1, difficulty + 1)

hash_difficulty(hash) == DifficultyLoop(hash, 1, 0)

\* Block(height, transactions, prev_hash, timestamp, nonce): the block, or
\* the exception that ends the construction
Block_init(height, stored, prev_hash, timestamp, nonce) ==
    LET txs == Block_transactions(stored)
        root == find_merkle_root(height, stored)
        failed(r, i) == [raises |-> r, index |-> i]
        made(merkle_root, header) ==
            [raises |-> "none", index |-> 0, height |-> height, prev_hash |-> prev_hash,
             transactions |-> txs.value, timestamp |-> timestamp, nonce |-> nonce,
             merkle_root |-> merkle_root, header |-> header,
             hash |-> get_hash(height, txs.value, header),
             hash_difficulty |-> hash_difficulty(get_hash(height, txs.value, header))]
    IN  IF timestamp = 0
        THEN IF txs.raises # "none" THEN failed(txs.raises, 0) ELSE made(0, 0)
        ELSE IF root.raises # "none" THEN failed(root.raises, root.index)
             ELSE made(root.value,
                       get_header(prev_hash, root.value, timestamp, nonce))

(* ------------------------------ signatures ----------------------------- *)
\* A signature text is a sequence of pieces: [num |-> n] is the number n
\* written in digits, [sep |-> "_"] and [sep |-> ", "] are the separators
\* make_your_signature writes, [txt |-> "x"] is any other text.

\* text.split(sep): the fields between the separators
RECURSIVE split(_, _)
split(text, sep) ==
    IF \A i \in DOMAIN text : text[i] # [sep |-> sep] THEN <<text>>
    ELSE LET i == SetMin({j \in DOMAIN text : text[j] = [sep |-> sep]})
         IN  <<SubSeq(text, 1, i - 1)>> \o split(SubSeq(text, i + 1, Len(text)), sep)

\* int(field) succeeds on a field that is one number
IsInt(field) == Len(field) = 1 /\ DOMAIN field[1] = {"num"}

\* pow(block, e, n)
RECURSIVE pow(_, _, _)
pow(block, e, n) == IF e = 0 THEN 1 % n ELSE (block * pow(block, e - 1, n)) % n

\* _BYTE_SIZE ** i as the divisor of a block below 2^31: from i = 4 on it
\* is greater than the block
ByteShift(block, i) ==
    IF i >= 4 THEN [quotient |-> 0, remainder |-> block]
    ELSE [quotient |-> block \div (BYTE_SIZE ^ i), remainder |-> block % (BYTE_SIZE ^ i)]

\* lines 203-208 for one block, from position i down to 0: the characters
\* of the block, first character first; chr raises from 0x110000 on
RECURSIVE BlockContent(_, _, _, _)
BlockContent(block, i, done, sign_length) ==
    IF i < 0 THEN [raises |-> "none", content |-> <<>>]
    ELSE IF done + i < sign_length
    THEN LET shift == ByteShift(block, i)
             rest == BlockContent(shift.remainder, i - 1, done, sign_length)
         IN  IF shift.quotient >= 1114112 \/ rest.raises # "none"
             THEN [raises |-> "ValueError", content |-> <<>>]
             ELSE [raises |-> "none", content |-> rest.content \o <<shift.quotient>>]
    ELSE BlockContent(block, i - 1, done, sign_length)

\* the loop of lines 201-209 over the decrypted blocks
RECURSIVE SignatureText(_, _, _, _)
SignatureText(decrypted_blocks, signature, block_size, sign_length) ==
    IF decrypted_blocks = <<>> THEN [raises |-> "none", text |-> signature]
    ELSE LET c == BlockContent(Head(decrypted_blocks), block_size - 1,
                               Len(signature), sign_length)
         IN  IF c.raises # "none" THEN [raises |-> c.raises, text |-> <<>>]
             ELSE SignatureText(Tail(decrypted_blocks), signature \o c.content,
                                block_size, sign_length)

\* security.decode_their_signature; the public key is the pair (n, e); the
\* text it returns is the sequence of its character codes
decode_their_signature(digital_signature, public_key) ==
    LET fields == split(digital_signature, "_")
        fails == [raises |-> "ValueError", text |-> <<>>]
    IN  IF Len(fields) # 3 THEN fails
        ELSE LET codes == split(fields[3], ", ")
             IN  IF \E k \in DOMAIN codes : ~IsInt(codes[k]) THEN fails
                 ELSE IF ~IsInt(fields[2]) \/ ~IsInt(fields[1]) THEN fails
                 ELSE SignatureText(
                         [k \in DOMAIN codes |->
                             pow(codes[k][1].num, public_key[2], public_key[1])],
                         <<>>, fields[2][1].num, fields[1][1].num)

\* Transaction.verify_transaction of a transaction with this sign and sender
verify_transaction(sign, sender, verification_text) ==
    LET decoded == decode_their_signature(sign, sender)
    IN  IF decoded.raises # "none" THEN [raises |-> decoded.raises, value |-> FALSE]
        ELSE [raises |-> "none", value |-> decoded.text = verification_text]

(* --------------------------- difficulty oracle ------------------------- *)
\* the height of a call that gives none
None == 0 - 1

\* get_multiple_tallest_headers(height), sorted by branch: the rows that may
\* come first in the list (rows of one branch come in any order)
get_multiple_tallest_headers(height) ==
    LET found == {i \in Rows : blocks[i].height = height}
    IN  {i \in found : \A j \in found : blocks[i].branch <= blocks[j].branch}

\* header.hash_difficulty: the hash difficulty of the block that has the
\* header, which line 129 hangs on the header
header_hash_difficulty(header) ==
    LET i == SetMin({j \in Rows : blocks[j].hash = header})
    IN  hash_difficulty(Digest(BlockHash(blocks[i].height, header)))

\* find_hash_difficulty(height).  The unpacking of lines 621 and 629 is read
\* as taking header and timestamp of the first row of the list: i is that
\* row at height, j that row at height - SPAN, 0 when the list is empty
\* (line 625 then takes header 0 and the time of the call, now; line 629
\* has nothing to unpack).  A call without height compares None with the
\* span at line 628.
find_hash_difficulty(height, i, j, now) ==
    LET returns(v) == [raises |-> "none", value |-> v]
        fails(e) == [raises |-> e, value |-> 0]
        header == IF i = 0 THEN 0 ELSE blocks[i].hash
        block_timestamp == IF i = 0 THEN now ELSE blocks[i].timestamp
        target == TARGET_TIME * DIFFICULTY_ADJUSTMENT_SPAN
    IN  IF height = None THEN fails("TypeError")
        ELSE IF height > DIFFICULTY_ADJUSTMENT_SPAN
        THEN IF j = 0 THEN fails("ValueError")
             ELSE LET timestamp == block_timestamp - blocks[j].timestamp
                  IN  IF timestamp < target
                      THEN returns(header_hash_difficulty(header) + 1)
                      ELSE IF timestamp > target
                      THEN returns(header_hash_difficulty(header) - 1)
                      ELSE returns(header_hash_difficulty(header))
        ELSE returns(HASH_DIFFICULTY_MIN)

(* ---------------------------- reward schedule -------------------------- *)
\* pow(10, _SIGNIFICANT_DIGITS)
round_off == 10 ^ SIGNIFICANT_DIGITS

\* A reward is a number of whole coins and a number of 1/round_off parts of
\* a coin (below round_off); the value is coins + parts / round_off.
Coins(n) == [coins |-> n, parts |-> 0]

HalveRoundedUp(reward) ==
    [coins |-> reward.coins \div 2,
     parts |-> ((reward.coins % 2) * round_off + reward.parts + 1) \div 2]

\* floor(reward * round_off / 2) / round_off: the odd coin carries into parts
Halve(reward) ==
    [coins |-> reward.coins \div 2,
     parts |-> ((reward.coins % 2) * round_off + reward.parts) \div 2]

\* the loop over range(i, n + 1)
RECURSIVE HalvingLoop(_, _, _)
HalvingLoop(reward, i, n) ==
    IF i > n THEN reward ELSE HalvingLoop(Halve(reward), i + 1, n)

calculate_reward_from_zero(height) ==
    HalvingLoop(Coins(INITIAL_COINS), 0, height \div HALVING_FREQUENCY)

\* calculate_reward(height); int(height / _HALVING_FREQUENCY) of a height >= 0
\* is the integer quotient
calculate_reward(height) ==
    HalvingLoop(Coins(INITIAL_COINS), 1, height \div HALVING_FREQUENCY)

(* ------------------------------- callers ------------------------------- *)
StoredHeaders == {blocks[i].hash : i \in Rows}
\* a newly mined block's digest is one that no stored row names: not as a
\* block's hash, not as a parent hash left behind by prune, not in a
\* transaction's block_hash
NamedHeaders ==
    StoredHeaders \cup {blocks[i].previous_hash : i \in Rows}
                  \cup {(transactions[k].block_hash - 1000) \div 100 : k \in DOMAIN transactions}
FreshHeader == SetMin((1..(2 * MaxBlocks + 1)) \ NamedHeaders)
RowCap == IF odd = 0 THEN MaxBlocks ELSE MaxOddBlocks

\* a caller mines a block on top of a stored block
AddChild ==
    /\ Len(blocks) < RowCap
    /\ \E p \in Rows :
          add_block(Block(blocks[p].height + 1, TxList(FreshHeader),
                          blocks[p].hash, FreshHeader))
    /\ UNCHANGED <<odd, calls>>

\* a caller submits again a block that is already stored (the constructor
\* does so with the genesis block)
AddAgain ==
    /\ Len(blocks) < MaxOddBlocks
    /\ odd < MaxOdd
    /\ \E i \in Rows :
          add_block(Block(blocks[i].height, TxList(blocks[i].hash),
                          blocks[i].previous_hash, blocks[i].hash))
    /\ odd' = odd + 1
    /\ UNCHANGED calls

\* a caller submits a new block with any parent hash and any height
AddAny ==
    /\ Len(blocks) < MaxOddBlocks
    /\ odd < MaxOdd
    /\ \E prev \in StoredHeaders \cup {UnknownHash}, h \in 0..MaxHeight :
          add_block(Block(h, TxList(FreshHeader), prev, FreshHeader))
    /\ odd' = odd + 1
    /\ UNCHANGED calls

\* create_genesis_block as process n builds it: the default timestamp of
\* the genesis transaction is evaluated when the module is loaded (line 24),
\* so its hash, which is also the block's prev_hash, differs from process to
\* process; the header is 0 in every process (lines 109-112)
create_genesis_block_in(n) ==
    StampedBlock(0, <<Transaction(0, 0, 0, 0, TxHash(0, n))>>, TxHash(0, n), 0, 0)

\* BlockChain.__init__ over a store that is already initialised, in the
\* process that initialised it or in another one: line 235 submits the
\* genesis block again
BlockChain_init ==
    /\ Len(blocks) < MaxOddBlocks
    /\ odd < MaxOdd
    /\ \E n \in 1..NumProcs : add_block(create_genesis_block_in(n))
    /\ odd' = odd + 1
    /\ UNCHANGED calls

(* ------------------- add_block, one store access at a time -------------- *)
\* The processes that share the store.  __init__ creates block_lock (line
\* 232) but no method acquires it, so no step below waits for a lock.  The
\* reads and the branch decision of lines 270-283 are taken as one step.
Procs == 1..NumProcs

Idle == [pc |-> "idle", block |-> create_genesis_block, current_branch |-> 0,
         promoted |-> 0, k |-> 0]

InFlight == {p \in Procs : calls[p].pc # "idle"}

FreshStepHeader ==
    SetMin((1..(MaxBlocks + 1)) \ (StoredHeaders \cup {calls[p].block.header : p \in InFlight}))

\* lines 270-283 for process p: the branch is resolved; the call goes on to
\* line 295, or the exception of a failed reorganization ends it
Resolve(p, block) ==
    LET current_branch == get_current_branch(block.prev_hash)
        current_height == get_height
        go(b, promoted) == calls' = [calls EXCEPT ![p] =
                              [pc |-> "insert_block", block |-> block,
                               current_branch |-> b, promoted |-> promoted, k |-> 1]]
    IN  IF Taller(block.height, current_height)
        THEN IF current_branch > 0
             THEN \E m \in TopBranchRows :
                     LET r == change_primary_branch(current_branch, m)
                     IN  IF r.outcome = "done"
                         THEN /\ blocks' = r.blocks
                              /\ transactions' = r.transactions
                              /\ go(PromotedBranch(current_branch), current_branch)
                              /\ UNCHANGED <<branch, next_id, last>>
                         ELSE /\ Abort(block, current_branch)
                              /\ UNCHANGED calls
             ELSE /\ go(current_branch, 0)
                  /\ UNCHANGED <<blocks, transactions, branch, next_id, last>>
        ELSE IF Clashes(current_branch, get_clashing_branches(block.prev_hash))
             THEN /\ next_id <= MaxBranchId
                  /\ branch' = branch \cup {NewBranchRow(block.header, block.height)}
                  /\ next_id' = next_id + 1
                  /\ go(next_id, 0)
                  /\ UNCHANGED <<blocks, transactions, last>>
             ELSE /\ go(current_branch, 0)
                  /\ UNCHANGED <<blocks, transactions, branch, next_id, last>>

\* a process calls add_block with a new child of a stored block
StepCall ==
    \E p \in Procs \ InFlight :
       /\ Len(blocks) + Cardinality(InFlight) < MaxStepBlocks
       /\ \E q \in Rows :
             Resolve(p, Block(blocks[q].height + 1, TxList(FreshStepHeader),
                              blocks[q].hash, FreshStepHeader))
       /\ UNCHANGED odd

\* line 295: block_entry.insert_one
StepInsertBlock ==
    \E p \in Procs :
       /\ calls[p].pc = "insert_block"
       /\ blocks' = Append(blocks, BlockRow(calls[p].block, calls[p].current_branch))
       /\ calls' = [calls EXCEPT ![p].pc = "insert_transaction"]
       /\ UNCHANGED <<transactions, branch, next_id, last, odd>>

\* lines 299-309: one transaction_entry.insert_one of the loop
StepInsertTransaction ==
    \E p \in Procs :
       /\ calls[p].pc = "insert_transaction"
       /\ transactions' = Append(transactions,
                                 TxRows(calls[p].block, calls[p].current_branch)[calls[p].k])
       /\ calls' = [calls EXCEPT ![p].k = @ + 1,
                                 ![p].pc = IF calls[p].k = Len(calls[p].block.transactions)
                                           THEN "update_branch" ELSE @]
       /\ UNCHANGED <<blocks, branch, next_id, last, odd>>

\* lines 311-318: branch_entry.update_one, and the call returns
StepUpdateBranch ==
    \E p \in Procs :
       /\ calls[p].pc = "update_branch"
       /\ branch' = {IF r.id = calls[p].current_branch
                     THEN [r EXCEPT !.current_height = calls[p].block.height,
                                    !.current_hash = calls[p].block.header]
                     ELSE r : r \in branch}
       /\ last' = [op |-> "add", header |-> calls[p].block.header,
                   prev_hash |-> calls[p].block.prev_hash,
                   height |-> calls[p].block.height,
                   branch |-> calls[p].current_branch,
                   promoted |-> calls[p].promoted]
       /\ calls' = [calls EXCEPT ![p] = Idle]
       /\ UNCHANGED <<blocks, transactions, next_id, odd>>

\* a write fails or the process dies in the middle of add_block: the
\* exception ends the call, what was written stays
StepCrash ==
    \E p \in InFlight :
       /\ calls' = [calls EXCEPT ![p] = Idle]
       /\ last' = [op |-> "crash", header |-> calls[p].block.header,
                   prev_hash |-> calls[p].block.prev_hash,
                   height |-> calls[p].block.height,
                   branch |-> calls[p].current_branch, promoted |-> 0]
       /\ UNCHANGED <<blocks, transactions, branch, next_id, odd>>

(* ------ prune and change_primary_branch, one store access at a time ----- *)
\* No method acquires block_lock, so a call of prune and a call of add_block
\* that reorganizes take turns store access by store access; the other
\* admissions run in between as whole calls.  Each process makes one such
\* call and has returned after it.
Returned == [pc |-> "returned", block |-> create_genesis_block, current_branch |-> 0,
             promoted |-> 0, k |-> 0]

PrunePcs == {"delete_blocks", "delete_transactions", "delete_branch"}

ReorgPcs == {"blocks_to_primary", "blocks_to_branch",
             "transactions_to_primary", "transactions_to_branch", "persist"}

Adding == {p \in Procs : calls[p].pc \in ReorgPcs}

FreshPruneHeader ==
    SetMin((1..(2 * MaxPruneBlocks + NumProcs + 1))
              \ (NamedHeaders \cup {calls[p].block.header : p \in InFlight}))

\* the stored blocks a miner builds on: the tallest ones, and those one
\* block below for a miner who has not seen the latest block yet
MinedOn == {q \in Rows : blocks[q].height >= get_height - 1}

\* a whole add_block call of another caller, on top of such a block
AddChildMeanwhile ==
    /\ Len(blocks) + Cardinality(Adding) < MaxPruneBlocks
    /\ \E q \in MinedOn :
          add_block(Block(blocks[q].height + 1, TxList(FreshPruneHeader),
                          blocks[q].hash, FreshPruneHeader))
    /\ UNCHANGED <<odd, calls>>

\* prune, lines 466-470: max_height and target_branches are read
StepPruneRead ==
    \E p \in Procs \ InFlight :
       LET max_height == get_height
           target_branches == {r.id : r \in {x \in branch :
                                  TooShort(x.current_height, max_height)}}
       IN  /\ calls' = [calls EXCEPT ![p] =
                           [pc |-> "delete_blocks", block |-> create_genesis_block,
                            current_branch |-> 0, promoted |-> 0, k |-> 0,
                            target_branches |-> target_branches]]
           /\ UNCHANGED <<blocks, transactions, branch, next_id, last, odd>>

\* prune, line 477: blocks_entry.delete_many
StepPruneDeleteBlocks ==
    \E p \in Procs :
       /\ calls[p].pc = "delete_blocks"
       /\ blocks' = delete_many(blocks, calls[p].target_branches)
       /\ calls' = [calls EXCEPT ![p].pc = "delete_transactions"]
       /\ UNCHANGED <<transactions, branch, next_id, last, odd>>

\* prune, line 478: transaction_entry.delete_many
StepPruneDeleteTransactions ==
    \E p \in Procs :
       /\ calls[p].pc = "delete_transactions"
       /\ transactions' = delete_many(transactions, calls[p].target_branches)
       /\ calls' = [calls EXCEPT ![p].pc = "delete_branch"]
       /\ UNCHANGED <<blocks, branch, next_id, last, odd>>

\* prune, lines 479-483: branch_entry.delete_many, and the call returns
StepPruneDeleteBranch ==
    \E p \in Procs :
       /\ calls[p].pc = "delete_branch"
       /\ branch' = {r \in branch : r.id \notin calls[p].target_branches}
       /\ calls' = [calls EXCEPT ![p] = Returned]
       /\ last' = [op |-> "prune", header |-> 0, prev_hash |-> 0, height |-> 0,
                   branch |-> 0, promoted |-> 0]
       /\ UNCHANGED <<blocks, transactions, next_id, odd>>

\* add_block, lines 270-277, and change_primary_branch, lines 373-396, for a
\* block taller than every stored one whose parent is on a branch b > 0:
\* the walk and the range of the primary branch are read
StepReorgRead ==
    \E p \in Procs \ InFlight :
       /\ Len(blocks) + Cardinality(Adding) < MaxPruneBlocks
       /\ \E q \in MinedOn :
             LET block == Block(blocks[q].height + 1, TxList(FreshPruneHeader),
                                blocks[q].hash, FreshPruneHeader)
                 b == get_current_branch(block.prev_hash)
             IN  /\ Taller(block.height, get_height)
                 /\ b > 0
                 /\ \E m \in TopBranchRows :
                       LET tip == get_tallest_block(b, m)
                           w == IF tip = 0 THEN [outcome |-> "error"]
                                ELSE Walk(tip, {}, {tip})
                       IN  IF w.outcome = "done"
                           THEN /\ calls' = [calls EXCEPT ![p] =
                                     [pc |-> "blocks_to_primary", block |-> block,
                                      current_branch |-> b, promoted |-> b, k |-> 1,
                                      alt_hashes |-> w.alt_hashes,
                                      primary_branch |->
                                         yield_range_of_headers(w.start,
                                                                blocks[tip].height, 0)]]
                                /\ UNCHANGED <<blocks, transactions, branch, next_id, last>>
                           ELSE /\ Abort(block, b)
                                /\ UNCHANGED calls
       /\ UNCHANGED odd

\* change_primary_branch, line 403: the promoted branch's blocks get label 0
StepBlocksToPrimary ==
    \E p \in Procs :
       /\ calls[p].pc = "blocks_to_primary"
       /\ blocks' = Relabel(blocks, "hash", calls[p].alt_hashes, 0)
       /\ calls' = [calls EXCEPT ![p].pc = "blocks_to_branch"]
       /\ UNCHANGED <<transactions, branch, next_id, last, odd>>

\* line 406: the old primary branch's blocks get the label of the promoted one
StepBlocksToBranch ==
    \E p \in Procs :
       /\ calls[p].pc = "blocks_to_branch"
       /\ blocks' = Relabel(blocks, "hash", calls[p].primary_branch, calls[p].current_branch)
       /\ calls' = [calls EXCEPT ![p].pc = "transactions_to_primary"]
       /\ UNCHANGED <<transactions, branch, next_id, last, odd>>

\* line 409
StepTransactionsToPrimary ==
    \E p \in Procs :
       /\ calls[p].pc = "transactions_to_primary"
       /\ transactions' = Relabel(transactions, "block_hash", calls[p].alt_hashes, 0)
       /\ calls' = [calls EXCEPT ![p].pc = "transactions_to_branch"]
       /\ UNCHANGED <<blocks, branch, next_id, last, odd>>

\* line 410
StepTransactionsToBranch ==
    \E p \in Procs :
       /\ calls[p].pc = "transactions_to_branch"
       /\ transactions' = Relabel(transactions, "block_hash", calls[p].primary_branch,
                                  calls[p].current_branch)
       /\ calls' = [calls EXCEPT ![p].pc = "persist"]
       /\ UNCHANGED <<blocks, branch, next_id, last, odd>>

\* back in add_block, lines 278-318: the block is stored on the primary
\* branch, and the call returns
StepReorgPersist ==
    \E p \in Procs :
       /\ calls[p].pc = "persist"
       /\ Persist(calls[p].block, PromotedBranch(calls[p].current_branch), blocks,
                  transactions, branch, calls[p].promoted)
       /\ calls' = [calls EXCEPT ![p] = Returned]
       /\ UNCHANGED <<next_id, odd>>

(* ------------------------- callers of Block ---------------------------- *)
\* the transactions a caller may put in a block: the hash is what matters
SomeTxs == {[hash |-> n] : n \in 1..MaxTxs}

TxLists == UNION {[1..n -> SomeTxs] : n \in 0..MaxTxs}

\* one construction in a behaviour: a construction does not depend on the
\* ones before it
Construct ==
    /\ last.op = "init"
    /\ \E height \in 0..1, stored \in TxLists, timestamp \in 0..MaxStamp, nonce \in 0..1 :
          /\ last' = [op |-> "Block", height |-> height, stored |-> stored,
                      prev_hash |-> Digest(height), timestamp |-> timestamp, nonce |-> nonce,
                      block |-> Block_init(height, stored, Digest(height), timestamp, nonce)]
          /\ UNCHANGED <<blocks, transactions, branch, next_id, odd, calls>>

(* ---------------------- callers of the verification -------------------- *)
\* the sender's keys: modulus 33, public exponent 3, private exponent 7;
\* another signer's: modulus 35, private exponent 5
SenderKey == <<33, 3>>

\* the text the sender signs: one character, of code 2
SignedText == <<2>>

\* "1_1_29" is make_your_signature(SignedText, (33, 7), 1), since 2^7 % 33
\* = 29, and "1_1_32" is the other signer's, since 2^5 % 35 = 32
SignPieces ==
    {[num |-> 1], [num |-> 29], [num |-> 32], [sep |-> "_"], [sep |-> ", "], [txt |-> "x"]}

Signs == UNION {[1..n -> SignPieces] : n \in 0..MaxSignLen}

\* one verification in a behaviour: the sign is whatever the user typed
Verify ==
    /\ last.op = "init"
    /\ \E sign \in Signs :
          /\ last' = [op |-> "verify_transaction", sign |-> sign,
                      result |-> verify_transaction(sign, SenderKey, SignedText)]
          /\ UNCHANGED <<blocks, transactions, branch, next_id, odd, calls>>

(* ----------------------- callers of the difficulty --------------------- *)
\* heights around the adjustment span, and the heights a span below them
TimedHeights ==
    {1, DIFFICULTY_ADJUSTMENT_SPAN - 1, DIFFICULTY_ADJUSTMENT_SPAN,
     DIFFICULTY_ADJUSTMENT_SPAN + 1}

\* times that are less than, exactly and more than the target time apart
Stamps ==
    {1, TARGET_TIME * DIFFICULTY_ADJUSTMENT_SPAN,
     TARGET_TIME * DIFFICULTY_ADJUSTMENT_SPAN + 1,
     TARGET_TIME * DIFFICULTY_ADJUSTMENT_SPAN + 2}

\* add_block takes a block of any height and timestamp
AddTimed ==
    /\ Len(blocks) < MaxTimedBlocks
    /\ \E prev \in StoredHeaders, height \in TimedHeights, timestamp \in Stamps :
          add_block(StampedBlock(height, TxList(FreshHeader), prev, FreshHeader, timestamp))
    /\ UNCHANGED <<odd, calls>>

FirstOrNone(rows) == IF rows = {} THEN {0} ELSE rows

AskDifficulty ==
    \E height \in TimedHeights \cup {None}, now \in Stamps :
       \E i \in FirstOrNone(get_multiple_tallest_headers(height)),
          j \in FirstOrNone(get_multiple_tallest_headers(height - DIFFICULTY_ADJUSTMENT_SPAN)) :
          /\ last' = [op |-> "find_hash_difficulty", height |-> height, now |-> now,
                      row |-> i, span_row |-> j, rows |-> Len(blocks),
                      result |-> find_hash_difficulty(height, i, j, now)]
          /\ UNCHANGED <<blocks, transactions, branch, next_id, odd, calls>>

(* ------------------------ callers of the reward ------------------------ *)
\* heights at the start, just after the start and at the end of each period
RewardHeights ==
    {q * HALVING_FREQUENCY + r : q \in 0..MaxHalvings, r \in {0, 1, HALVING_FREQUENCY - 1}}

AskReward ==
    \E height \in RewardHeights :
       /\ last' = [op |-> "calculate_reward", height |-> height,
                   reward |-> calculate_reward(height)]
       /\ UNCHANGED <<blocks, transactions, branch, next_id, odd, calls>>

(* ---------------------------- specification ---------------------------- *)
\* BlockChain.__init__ on an empty store: add_block(create_genesis_block())
Init ==
    /\ blocks = <<BlockRow(create_genesis_block, 0)>>
    /\ transactions = TxRows(create_genesis_block, 0)
    /\ branch = {}
    /\ next_id = 1
    /\ odd = 0
    /\ calls = [p \in Procs |-> Idle]
    /\ last = [op |-> "init", header |-> 0, prev_hash |-> TxHash(0, 1), height |-> 0,
               branch |-> 0, promoted |-> 0]

Next == AddChild \/ AddAgain \/ AddAny \/ prune

Spec == Init /\ [][Next]_vars

\* callers that only ever mine on top of stored blocks
NextLinked == AddChild \/ prune

SpecLinked == Init /\ [][NextLinked]_vars

\* the same callers, and the ledger object constructed again at any time
NextRestart == AddChild \/ prune \/ BlockChain_init

SpecRestart == Init /\ [][NextRestart]_vars

\* add_block calls of several processes, interleaved write by write
NextSteps ==
    StepCall \/ StepInsertBlock \/ StepInsertTransaction \/ StepUpdateBranch \/ StepCrash

SpecSteps == Init /\ [][NextSteps]_vars

\* a call of prune and reorganizing add_block calls, interleaved store access
\* by store access, among whole add_block calls
NextPrune ==
    \/ AddChildMeanwhile
    \/ StepPruneRead \/ StepPruneDeleteBlocks \/ StepPruneDeleteTransactions
    \/ StepPruneDeleteBranch
    \/ StepReorgRead \/ StepBlocksToPrimary \/ StepBlocksToBranch
    \/ StepTransactionsToPrimary \/ StepTransactionsToBranch \/ StepReorgPersist

SpecPrune == Init /\ [][NextPrune]_vars

\* the reward schedule asked at any height
NextReward == AskReward

SpecReward == Init /\ [][NextReward]_vars

\* the difficulty asked of ledgers of blocks of any height and timestamp
NextDifficulty == AddTimed \/ AskDifficulty

SpecDifficulty == Init /\ [][NextDifficulty]_vars

\* signatures of any shape verified
NextVerify == Verify

SpecVerify == Init /\ [][NextVerify]_vars

\* blocks constructed from any transaction list
NextBlock == Construct

SpecBlock == Init /\ [][NextBlock]_vars

TypeOK ==
    /\ \A i \in Rows : blocks[i].branch \in 0..MaxBranchId
    /\ \A r \in branch : r.id \in 1..MaxBranchId
    /\ next_id \in 1..(MaxBranchId + 1)
    /\ \A p \in Procs : calls[p].pc \in {"idle", "insert_block", "insert_transaction",
                                     "update_branch", "returned"} \cup PrunePcs \cup ReorgPcs

(* ------------------------------ properties ----------------------------- *)
\* the step is an admission: add_block returned after its three writes
Admits == last'.op = "add" /\ Len(blocks') = Len(blocks) + 1

\* the step is an admission that ran change_primary_branch
Reorganizes == Admits /\ last'.promoted > 0

\* rows from row i back along the parent links, up to and without the first
\* row labelled 0
RECURSIVE ChainAboveFork(_, _)
ChainAboveFork(i, seen) ==
    IF blocks[i].branch = 0 THEN {}
    ELSE LET p == hash_to_header(blocks[i].previous_hash)
         IN  {i} \cup (IF p = 0 \/ p \in seen THEN {}
                       ELSE ChainAboveFork(p, seen \cup {p}))

\* the first row labelled 0 met from row i back along the parent links
\* (0 if there is none): the most recent common ancestor
RECURSIVE ForkRow(_, _)
ForkRow(i, seen) ==
    IF blocks[i].branch = 0 THEN i
    ELSE LET p == hash_to_header(blocks[i].previous_hash)
         IN  IF p = 0 \/ p \in seen THEN 0 ELSE ForkRow(p, seen \cup {p})

\* the row of the parent of the block the step admits
ParentRow == hash_to_header(last'.prev_hash)

\* C1: after an admission that promotes branch b, every block of the
\* promoted chain above the common ancestor, the former tip of b included,
\* and the admitted block carry branch id 0
C1_PromotedChainOnZero ==
    [][Reorganizes =>
          /\ blocks'[Len(blocks')].branch = 0
          /\ \A i \in ChainAboveFork(ParentRow, {ParentRow}) : blocks'[i].branch = 0]_vars

\* C2: after a reorganization that promotes b, every block that was on the
\* old primary chain above the common ancestor is labelled b
C2_OldPrimaryRelabelled ==
    [][Reorganizes =>
          LET f == ForkRow(ParentRow, {ParentRow})
          IN  f # 0 =>
                \A i \in Rows : (blocks[i].branch = 0 /\ blocks[i].height > blocks[f].height)
                                   => blocks'[i].branch = last'.promoted]_vars

\* C3: a reorganization leaves the common ancestor and every block below it
\* on the primary chain labelled 0
C3_AncestorKeepsZero ==
    [][Reorganizes =>
          LET f == ForkRow(ParentRow, {ParentRow})
          IN  f # 0 =>
                \A i \in Rows : (blocks[i].branch = 0 /\ blocks[i].height <= blocks[f].height)
                                   => blocks'[i].branch = 0]_vars

\* C4: after the admission of a block taller than the canonical height the
\* branch row 0 holds that block's height and header
C4_RowZeroFollowsTip ==
    [][(Admits /\ last'.height > get_height) =>
          \E r \in branch' : /\ r.id = 0
                             /\ r.current_height = last'.height
                             /\ r.current_hash = last'.header]_vars

\* C5: the admission of a block that is not taller than the canonical height
\* changes no stored block row and no stored transaction row (no label moves)
C5_TieKeepsLabels ==
    [][(Admits /\ last'.height <= get_height) =>
          /\ \A i \in Rows : blocks'[i] = blocks[i]
          /\ \A i \in DOMAIN transactions : transactions'[i] = transactions[i]]_vars

\* a block was admitted on a side branch at the height of a block of branch 0
\* that was stored before it, and nothing stored is taller
C5_Witness ==
    /\ last.op = "add" /\ last.branch > 0 /\ last.promoted = 0
    /\ blocks[Len(blocks)].hash = last.header
    /\ last.height = get_height
    /\ \E i \in 1..(Len(blocks) - 1) :
          blocks[i].branch = 0 /\ blocks[i].height = last.height

\* C6: two distinct blocks with the same previous hash and the same height,
\* admitted one after the other, are stored under different branch ids
C6_ForkGetsOwnBranch ==
    [][(/\ last.op = "add" /\ Admits
        /\ last'.prev_hash = last.prev_hash
        /\ last'.height = last.height
        /\ last'.header # last.header) =>
          /\ blocks'[Len(blocks)].hash = last.header
          /\ blocks'[Len(blocks')].hash = last'.header
          /\ blocks'[Len(blocks)].branch # blocks'[Len(blocks')].branch]_vars

\* the two newest rows are such a pair
C6_Witness ==
    /\ last.op = "add" /\ Len(blocks) >= 3
    /\ LET x == blocks[Len(blocks) - 1]
           y == blocks[Len(blocks)]
       IN  /\ y.hash = last.header
           /\ x.previous_hash = y.previous_hash
           /\ x.height = y.height
           /\ x.hash # y.hash
           /\ x.branch # y.branch

\* C7: the branch collection holds exactly one row with id 0
C7_OneRowZero == Cardinality({r \in branch : r.id = 0}) = 1

\* C8: no header is stored under two different branch ids
C8_OneBranchPerBlock ==
    \A i, j \in Rows : blocks[i].hash = blocks[j].hash => blocks[i].branch = blocks[j].branch

\* row i and the rows reached from it along the parent links
RECURSIVE ChainDown(_, _)
ChainDown(i, seen) ==
    LET p == hash_to_header(blocks[i].previous_hash)
    IN  {i} \cup (IF p = 0 \/ p \in seen THEN {} ELSE ChainDown(p, seen \cup {p}))

\* C9: every branch row holds the height and the header of the block most
\* recently admitted to its branch, which is the tip of the chain of the
\* blocks labelled with its id
C9_RowDescribesTip ==
    \A r \in branch :
        LET mine == {i \in Rows : blocks[i].branch = r.id}
        IN  /\ mine # {}
            /\ blocks[SetMax(mine)].height = r.current_height
            /\ blocks[SetMax(mine)].hash = r.current_hash
            /\ mine \subseteq ChainDown(SetMax(mine), {SetMax(mine)})

\* C10: every stored non-genesis block is one higher than the stored block
\* whose header is its previous hash
C10_HeightIsParentPlusOne ==
    \A i, j \in Rows :
        (blocks[i].previous_hash # create_genesis_block.prev_hash
           /\ blocks[j].hash = blocks[i].previous_hash)
        => blocks[i].height = blocks[j].height + 1

\* C11: the previous hash of every stored block is the genesis sentinel or
\* the header of a block stored before it
C11_ParentAdmittedBefore ==
    \A i \in Rows :
        \/ blocks[i].previous_hash = create_genesis_block.prev_hash
        \/ \E j \in 1..(i - 1) : blocks[j].hash = blocks[i].previous_hash

\* the block rows a transaction row belongs to
BlockRowsOf(t) ==
    {i \in Rows : BlockHash(blocks[i].height, blocks[i].hash) = t.block_hash}

\* C14: every transaction row carries the branch id of the block row that
\* contains it
C14_TxFollowsBlock ==
    \A k \in DOMAIN transactions :
        \A i \in BlockRowsOf(transactions[k]) :
            transactions[k].branch = blocks[i].branch

\* the greatest height known: over the stored blocks and the branch rows
TallestKnown ==
    SetMax({blocks[i].height : i \in Rows} \cup {r.current_height : r \in branch})

\* C15: right after prune every remaining branch row is at most
\* SHORT_CHAIN_TOLERANCE below the tallest known height
C15_RemainingRowsAreClose ==
    [][last'.op = "prune" =>
          \A r \in branch' : r.current_height >= TallestKnown' - SHORT_CHAIN_TOLERANCE]_vars

\* prune has returned, blocks reach height 4 or more, and a branch row that
\* is exactly SHORT_CHAIN_TOLERANCE below the top is still there
C15_Witness ==
    /\ last.op = "prune"
    /\ get_height > SHORT_CHAIN_TOLERANCE
    /\ \E r \in branch : r.current_height = get_height - SHORT_CHAIN_TOLERANCE

\* C16: right after prune no block row and no transaction row is labelled
\* with the id of a branch row that prune removed
C16_RemovedBranchLeavesNoRows ==
    [][last'.op = "prune" =>
          \A id \in {r.id : r \in branch} \ {r.id : r \in branch'} :
              /\ \A i \in DOMAIN blocks' : blocks'[i].branch # id
              /\ \A k \in DOMAIN transactions' : transactions'[k].branch # id]_vars

\* prune has returned and an id that was handed out has no branch row any
\* more (only prune removes branch rows)
C16_Witness ==
    /\ last.op = "prune"
    /\ \E id \in 1..(next_id - 1) : \A r \in branch : r.id # id

\* C17: a reorganization changes nothing but the branch field of the rows
\* stored before it; their number and their other fields stay
C17_ReorgOnlyRelabels ==
    [][Reorganizes =>
          /\ Len(blocks') = Len(blocks) + 1
          /\ \A i \in DOMAIN blocks :
                [blocks'[i] EXCEPT !.branch = blocks[i].branch] = blocks[i]
          /\ Len(transactions') > Len(transactions)
          /\ \A k \in DOMAIN transactions :
                [transactions'[k] EXCEPT !.branch = transactions[k].branch]
                    = transactions[k]]_vars

\* a reorganization has just moved the label of a stored block
C17_Witness ==
    /\ last.op = "add" /\ last.promoted > 0
    /\ \E i \in Rows : blocks[i].branch = last.promoted

\* C18: get_height is the height of the tip of the canonical chain: the
\* greatest height among the blocks of branch 0, never that of a taller
\* block of another branch
C18_HeightIsCanonical ==
    /\ \E i \in Rows : blocks[i].branch = 0
    /\ get_height = SetMax({blocks[i].height : i \in {j \in Rows : blocks[j].branch = 0}})

\* a block of a side branch is as tall as the canonical tip
C18_Witness ==
    /\ \E i \in Rows : blocks[i].branch > 0 /\ blocks[i].height = get_height
    /\ \E i \in Rows : blocks[i].branch = 0 /\ blocks[i].height = get_height

\* hashes a caller may ask about
Probes == (0..(MaxBlocks + 1)) \cup {UnknownHash}

RECURSIVE ReceivedMinusSent(_, _, _)
ReceivedMinusSent(address, b, n) ==
    IF n = 0 THEN 0
    ELSE LET t == transactions[n]
         IN  ReceivedMinusSent(address, b, n - 1)
               + (IF t.branch = b /\ t.to = address THEN t.amount ELSE 0)
               - (IF t.branch = b /\ t.by = address THEN t.amount ELSE 0)

\* C20: the balance of an address on a branch is what it received minus what
\* it sent in the transaction rows labelled with that branch; without a
\* branch it is that of branch 0
C20_BalanceIsReceivedMinusSent ==
    \A a \in Addresses :
        /\ \A b \in 0..MaxBranchId :
              get_balance(a, b) = ReceivedMinusSent(a, b, Len(transactions))
        /\ get_balance_default(a) = ReceivedMinusSent(a, 0, Len(transactions))

\* an address has sent and received on branch 0 and on a side branch, with
\* different balances
C20_Witness ==
    \E a \in Addresses, b \in 1..MaxBranchId :
        /\ \E k \in DOMAIN transactions :
              transactions[k].branch = b /\ transactions[k].by = a
                 /\ transactions[k].to # a
        /\ \E k \in DOMAIN transactions :
              transactions[k].branch = 0 /\ transactions[k].to = a
                 /\ transactions[k].by # a
        /\ get_balance(a, b) # get_balance(a, 0)

\* C12: in every state a reader or a crash may see, each block row has all
\* its transaction rows and each branch row names the newest block stored
\* for its branch
C12_WritesAreAtomic ==
    /\ \A i \in Rows :
          \A j \in DOMAIN TxList(blocks[i].hash) :
             \E k \in DOMAIN transactions :
                /\ transactions[k].hash = TxList(blocks[i].hash)[j].hash
                /\ transactions[k].block_hash = BlockHash(blocks[i].height, blocks[i].hash)
    /\ \A r \in branch :
          LET mine == {i \in Rows : blocks[i].branch = r.id}
          IN  mine # {} /\ blocks[SetMax(mine)].hash = r.current_hash
                        /\ blocks[SetMax(mine)].height = r.current_height

\* C13: at most one process is inside add_block
C13_OneAdmissionAtATime == Cardinality(InFlight) <= 1

\* a <= b for rewards
RewardAtMost(a, b) == a.coins < b.coins \/ (a.coins = b.coins /\ a.parts <= b.parts)

\* C21: reward(0) = 100, reward(HALVING_FREQUENCY) = 50, and the reward at
\* a height is at most the reward at any lower height
C21_RewardSchedule ==
    last.op = "calculate_reward" =>
       /\ last.height = 0 => last.reward = Coins(100)
       /\ last.height = HALVING_FREQUENCY => last.reward = Coins(50)
       /\ \A h1 \in RewardHeights :
             h1 <= last.height => RewardAtMost(last.reward, calculate_reward(h1))

\* the reward of a height in a late period, below that of the first period
C21_Witness ==
    /\ last.op = "calculate_reward"
    /\ last.height > HALVING_FREQUENCY
    /\ last.reward # Coins(0)
    /\ ~RewardAtMost(Coins(50), last.reward)

\* x is r / 2 rounded down to a whole number of parts: 2x <= r < 2x + 1 part
IsRoundedHalf(x, r) ==
    LET twice == [coins |-> 2 * x.coins + (2 * x.parts) \div round_off,
                  parts |-> (2 * x.parts) % round_off]
        more == IF twice.parts + 1 = round_off
                THEN [coins |-> twice.coins + 1, parts |-> 0]
                ELSE [twice EXCEPT !.parts = @ + 1]
    IN  /\ x.parts \in 0..(round_off - 1)
        /\ RewardAtMost(twice, r)
        /\ RewardAtMost(r, more)

\* C22: the reward of the first period is the initial amount, the reward
\* of each later period is that of the period before, halved and rounded
\* down to SIGNIFICANT_DIGITS decimals, and the reward is the same at every
\* height of one period
C22_HalvedAndRoundedEachPeriod ==
    last.op = "calculate_reward" =>
       LET start == last.height - (last.height % HALVING_FREQUENCY)
       IN  /\ last.reward = calculate_reward(start)
           /\ start = 0 => last.reward = Coins(INITIAL_COINS)
           /\ start > 0 =>
                 IsRoundedHalf(last.reward, calculate_reward(start - HALVING_FREQUENCY))

\* a reward that lost a fraction of a part to the rounding, asked inside a period
C22_Witness ==
    /\ last.op = "calculate_reward"
    /\ last.height % HALVING_FREQUENCY > 0
    /\ last.reward.coins = 0 /\ last.reward.parts = 4882812

\* C26: a block that is not the genesis block, constructed with no
\* transactions, fails with InvalidTransaction carrying the height, and the
\* genesis convention gives a block with merkle root 0 and header 0
C26_EmptyBlockIsRejected ==
    last.op = "Block" =>
       /\ (last.timestamp # 0 /\ last.stored = <<>>) =>
             (last.block.raises = "InvalidTransaction" /\ last.block.index = last.height)
       /\ last.timestamp = 0 =>
             /\ last.block.raises # "InvalidTransaction"
             /\ last.block.raises = "none" =>
                   (last.block.merkle_root = 0 /\ last.block.header = 0)

\* the sequences with the same first element as txs and the same other
\* elements in any order
Reorderings(txs) ==
    {[i \in DOMAIN txs |-> txs[f[i]]] :
        f \in {g \in [DOMAIN txs -> DOMAIN txs] :
                  /\ g[1] = 1
                  /\ \A i, j \in DOMAIN txs : g[i] = g[j] => i = j}}

RECURSIVE Paired(_)
Paired(level) ==
    IF level = <<>> THEN <<>>
    ELSE IF Len(level) = 1 THEN <<sha_512(level[1])>>
    ELSE <<sha_512(level[1] \o level[2])>> \o Paired(SubSeq(level, 3, Len(level)))

RECURSIVE Folded(_)
Folded(level) == IF Len(level) = 1 THEN level[1] ELSE Folded(Paired(level))

C29_HeaderIsDoubleHash ==
    (last.op = "Block" /\ last.timestamp # 0 /\ last.block.raises = "none") =>
       last.block.header =
          sha_512(sha_512(last.prev_hash \o last.block.merkle_root
                          \o Hex8(last.timestamp) \o Hex8(last.nonce)))

\* the number of "0" characters a string starts with
RECURSIVE LeadingZeros(_)
LeadingZeros(text) ==
    IF text # <<>> /\ text[1] = [chr |-> "0"] THEN 1 + LeadingZeros(Tail(text)) ELSE 0

\* C30: the hash difficulty of a block is the number of "0" characters its
\* hash starts with
C30_DifficultyCountsLeadingZeros ==
    (last.op = "Block" /\ last.block.raises = "none") =>
       last.block.hash_difficulty = LeadingZeros(last.block.hash)

\* C23: asked at a height below DIFFICULTY_ADJUSTMENT_SPAN, or without a
\* height on a ledger that holds only the genesis block, the oracle
\* returns HASH_DIFFICULTY_MIN
C23_MinimumBelowSpan ==
    (/\ last.op = "find_hash_difficulty"
     /\ \/ last.height = None /\ last.rows = 1
        \/ last.height # None /\ last.height < DIFFICULTY_ADJUSTMENT_SPAN) =>
       (last.result.raises = "none" /\ last.result.value = HASH_DIFFICULTY_MIN)

\* C24: asked at a height of at least DIFFICULTY_ADJUSTMENT_SPAN, with a
\* block at the height and one a span below, the oracle returns the
\* difficulty of the block at the height plus 1 when the two blocks are
\* less than the target time apart, minus 1 when they are more than the
\* target time apart, and unchanged when they are exactly the target apart
C24_StepAdjustment ==
    (/\ last.op = "find_hash_difficulty"
     /\ last.height # None /\ last.height >= DIFFICULTY_ADJUSTMENT_SPAN
     /\ last.row # 0 /\ last.span_row # 0) =>
       LET elapsed == blocks[last.row].timestamp - blocks[last.span_row].timestamp
           target == TARGET_TIME * DIFFICULTY_ADJUSTMENT_SPAN
           current == header_hash_difficulty(blocks[last.row].hash)
       IN  /\ last.result.raises = "none"
           /\ last.result.value = IF elapsed < target THEN current + 1
                                  ELSE IF elapsed > target THEN current - 1
                                  ELSE current

\* C25: a difficulty the oracle returns is never below HASH_DIFFICULTY_MIN
C25_NeverBelowMinimum ==
    (last.op = "find_hash_difficulty" /\ last.result.raises = "none") =>
       last.result.value >= HASH_DIFFICULTY_MIN

\* the signature the sender makes of SignedText, and the one another signer makes
GenuineSign == <<[num |-> 1], [sep |-> "_"], [num |-> 1], [sep |-> "_"], [num |-> 29]>>
ForeignSign == <<[num |-> 1], [sep |-> "_"], [num |-> 1], [sep |-> "_"], [num |-> 32]>>

\* three fields, all of them numbers or lists of numbers
WellFormed(sign) ==
    LET fields == split(sign, "_")
    IN  /\ Len(fields) = 3
        /\ IsInt(fields[1]) /\ IsInt(fields[2])
        /\ \A k \in DOMAIN split(fields[3], ", ") : IsInt(split(fields[3], ", ")[k])

\* C31: the verification never raises; it returns false for a signature
\* that is malformed, truncated or made with another key
C31_VerifyNeverRaises ==
    last.op = "verify_transaction" =>
       /\ last.result.raises = "none"
       /\ (~WellFormed(last.sign) \/ last.sign = ForeignSign) => last.result.value = FALSE

\* C32: when add_block starts a reorganization (the block is taller than
\* every stored block and its parent is on a branch other than 0), the walk
\* back from the tip of that branch ends at a stored block of branch 0: it
\* neither meets a parent that is not stored nor goes round for ever
C32_ReorganizationTerminates ==
    [][(/\ last'.op \in {"add", "abort"}
        /\ Taller(last'.height, get_height)
        /\ get_current_branch(last'.prev_hash) > 0) =>
          \A m \in TopBranchRows :
             LET tip == get_tallest_block(get_current_branch(last'.prev_hash), m)
             IN  tip # 0 => Walk(tip, {}, {tip}).outcome = "done"]_vars

\* C33: the blocks of branch 0 are one chain: no two different blocks of
\* branch 0 have the same height, and the parent of every block of branch 0
\* other than the genesis block is a stored block of branch 0
C33_BranchZeroIsOneChain ==
    /\ \A i, j \in Rows :
          (blocks[i].branch = 0 /\ blocks[j].branch = 0
             /\ blocks[i].height = blocks[j].height) => blocks[i].hash = blocks[j].hash
    /\ \A i \in Rows :
          (blocks[i].branch = 0 /\ blocks[i].height > 0) =>
             \E p \in Rows : /\ blocks[p].hash = blocks[i].previous_hash
                              /\ blocks[p].branch = 0

\* the ids b > 0 such that the parent of the block just submitted is the
\* tip of branch b: it is stored under b and the branch row of b names it
TipBranchesOfParent ==
    {r.id : r \in {x \in branch :
                     /\ x.id > 0
                     /\ x.current_hash = last'.prev_hash
                     /\ \E p \in Rows : /\ blocks[p].hash = last'.prev_hash
                                        /\ blocks[p].branch = x.id
                                        /\ blocks[p].height = x.current_height}}

\* C34: a block admitted on the tip of a branch b > 0, not taller than the
\* tallest stored block, is stored under b: no branch row is added, no
\* stored row changes, and the branch row of b takes the block's height and
\* header
C34_ExtendsSideBranch ==
    [][\A b \in TipBranchesOfParent :
          (Admits /\ ~Taller(last'.height, get_height)) =>
             /\ blocks' = Append(blocks, blocks'[Len(blocks')])
             /\ blocks'[Len(blocks')].branch = b
             /\ SubSeq(transactions', 1, Len(transactions)) = transactions
             /\ {r.id : r \in branch'} = {r.id : r \in branch}
             /\ \A r \in branch' :
                   IF r.id = b
                   THEN r.current_height = last'.height /\ r.current_hash = last'.header
                   ELSE r \in branch]_vars

\* a block was stored on the tip of a side branch without making it the tallest
C34_Witness ==
    /\ last.op = "add" /\ last.branch > 0 /\ last.promoted = 0
    /\ \E r \in branch : r.id = last.branch /\ r.current_hash = last.header
    /\ \E p \in Rows : /\ blocks[p].hash = last.prev_hash
                         /\ blocks[p].branch = last.branch
                         /\ blocks[p].height = last.height - 1
    /\ \E i \in Rows : blocks[i].height > last.height

\* the step is a call of prune
Prunes == last'.op = "prune"

\* the rows of a collection that carry branch label b, in stored order
Labelled(rows, b) == SelectSeq(rows, LAMBDA x : x.branch = b)

WithinTolerance ==
    {r \in branch : r.current_height >= get_height - SHORT_CHAIN_TOLERANCE}

Quiet == \A p \in Procs : calls[p].pc \in {"idle", "returned"}

\* the branch ids whose branch row prune has deleted
DeletedBranches == (1..(next_id - 1)) \ {r.id : r \in branch}

\* C37: however a call of prune and an add_block that runs
\* change_primary_branch interleave, once both have returned no block row
\* and no transaction row carries the id of a branch whose branch row prune
\* has deleted.
C37_PruneAndReorganizationExclude ==
    Quiet =>
       /\ \A i \in Rows : blocks[i].branch \notin DeletedBranches
       /\ \A k \in DOMAIN transactions : transactions[k].branch \notin DeletedBranches

\* the step is a construction of the ledger object over the stored state
Constructs == odd' = odd + 1

\* C38: constructing the ledger object again over an initialised store
\* leaves the store as it was: no second block of height 0 is stored, the
\* genesis block keeps its branch, no branch row is created.
C38_ConstructionLeavesStore ==
    [][Constructs => /\ blocks' = blocks
                     /\ transactions' = transactions
                     /\ branch' = branch]_vars
====
